---- MODULE Spec2Model ----
(***************************************************************************)
(* iperf_exporter (src/main.go): a sampler goroutine runs iperf3 in a      *)
(* loop and publishes the last report in four prometheus gauge vectors;    *)
(* the main goroutine parses the flags, starts the sampler, registers      *)
(* the collectors and serves /metrics.                                     *)
(* Durations are in milliseconds.                                          *)
(***************************************************************************)
EXTENDS Integers, Sequences, FiniteSets, TLC

(* ------------------------------ bounds --------------------------------- *)
\* longest -interval flag value explored
MaxLen == 3
\* most failed measurement attempts in one run
MaxFailures == 2

(* --------------------------- program constants ------------------------- *)
\* time.Second * 10, the sleep after a failed attempt
Backoff == 10000

\* the -server flag (its default)
Servers == {"127.0.0.1"}

\* characters the -interval flag value is built from
Chars == {"5", "s"}
Digits == {"0", "1", "2", "3", "4", "5", "6", "7", "8", "9"}

RECURSIVE SeqsUpTo(_)
SeqsUpTo(n) ==
  IF n = 0 THEN {<<>>}
  ELSE LET S == SeqsUpTo(n - 1)
       IN  S \cup {Append(s, c) : s \in {t \in S : Len(t) = n - 1}, c \in Chars}

IntervalFlags == SeqsUpTo(MaxLen)

(* --------------------------- time.ParseDuration ------------------------ *)
DigitVal(c) ==
  CASE c = "0" -> 0 [] c = "1" -> 1 [] c = "2" -> 2 [] c = "3" -> 3
    [] c = "4" -> 4 [] c = "5" -> 5 [] c = "6" -> 6 [] c = "7" -> 7
    [] c = "8" -> 8 [] c = "9" -> 9

\* unitMap of package time in ms (ns, us are below the resolution used here)
UnitMap ==
  (<<"m", "s">> :> 1) @@ (<<"s">> :> 1000) @@ (<<"m">> :> 60000)
    @@ (<<"h">> :> 3600000)

\* length of the longest prefix of s made of digits (leadingInt)
RECURSIVE DigitRun(_)
DigitRun(s) ==
  IF s = <<>> \/ Head(s) \notin Digits THEN 0 ELSE 1 + DigitRun(Tail(s))

\* length of the longest prefix of s holding no digit (the unit)
RECURSIVE UnitRun(_)
UnitRun(s) ==
  IF s = <<>> \/ Head(s) \in Digits THEN 0 ELSE 1 + UnitRun(Tail(s))

RECURSIVE IntOf(_, _)
IntOf(s, acc) ==
  IF s = <<>> THEN acc ELSE IntOf(Tail(s), acc * 10 + DigitVal(Head(s)))

\* the loop of ParseDuration: ([0-9]+ unit)+ ; d is the sum so far
RECURSIVE ParseTerms(_, _)
ParseTerms(s, d) ==
  IF s = <<>> THEN [ok |-> TRUE, d |-> d]
  ELSE LET n == DigitRun(s)
           rest == SubSeq(s, n + 1, Len(s))
           u == UnitRun(rest)
           unit == SubSeq(rest, 1, u)
       IN  IF n = 0 THEN [ok |-> FALSE, d |-> 0]          \* invalid duration
           ELSE IF u = 0 THEN [ok |-> FALSE, d |-> 0]     \* missing unit
           ELSE IF unit \notin DOMAIN UnitMap
                THEN [ok |-> FALSE, d |-> 0]              \* unknown unit
           ELSE ParseTerms(SubSeq(rest, u + 1, Len(rest)),
                           d + IntOf(SubSeq(s, 1, n), 0) * UnitMap[unit])

ParseDuration(s) ==
  IF s = <<"0">> THEN [ok |-> TRUE, d |-> 0]
  ELSE IF s = <<>> THEN [ok |-> FALSE, d |-> 0]
  ELSE ParseTerms(s, 0)

(* ------------------------- iperf3 and its output ----------------------- *)
\* a JSON object is a function from its keys to values; Garbage is output
\* that is no JSON document
Garbage == [garbage |-> TRUE]
EmptyObj == <<>>

SumA == ("bits_per_second" :> 1000000) @@ ("retransmits" :> 2)
SumB == ("bits_per_second" :> 950000) @@ ("retransmits" :> 0)
SumC == ("bits_per_second" :> 2000000) @@ ("retransmits" :> 1)
SumD == ("bits_per_second" :> 1900000) @@ ("retransmits" :> 3)

EndDocs ==
  { EmptyObj,
    ("sum_sent" :> SumA) @@ ("sum_received" :> SumB),
    ("sum_sent" :> SumC) @@ ("sum_received" :> SumD) }

ErrorTexts == {"unable to connect to server"}

Stdouts ==
  {Garbage, EmptyObj}
    \cup {("end" :> e) : e \in EndDocs}
    \cup {("error" :> t) @@ ("end" :> e) : t \in ErrorTexts, e \in EndDocs}

ExitCodes == {0, 1, 2}

\* what one run of the subprocess can do
ProcOutcomes ==
  {[started |-> FALSE, exitCode |-> -1, stdout |-> Garbage]}
    \cup [started : {TRUE}, exitCode : ExitCodes, stdout : Stdouts]

NoProc == [started |-> FALSE, exitCode |-> 0, stdout |-> EmptyObj]

(* ------------------------------ errors --------------------------------- *)
NoErr == [kind |-> "nil", code |-> 0, msg |-> ""]
LaunchErr == [kind |-> "launch", code |-> 0, msg |-> "exec: not started"]
ExitError(n) == [kind |-> "exit_status", code |-> n, msg |-> "exit status"]
ExitCodeErr(n) == [kind |-> "exit_code", code |-> n, msg |-> "exit code: "]
JsonErr == [kind |-> "json", code |-> 0, msg |-> "invalid JSON"]
ToolErr(t) == [kind |-> "tool", code |-> 0, msg |-> t]

(* ------------------------------ decoding ------------------------------- *)
ZeroSummary == [BitsPerSecond |-> 0, Retransmits |-> 0]

\* IPerf3Summary filled from a JSON object; absent keys keep the zero value
DecodeSummary(o) ==
  [BitsPerSecond |-> IF "bits_per_second" \in DOMAIN o
                     THEN o["bits_per_second"] ELSE 0,
   Retransmits |-> IF "retransmits" \in DOMAIN o THEN o["retransmits"] ELSE 0]

ZeroResult ==
  [Error |-> "", End |-> [SumSent |-> ZeroSummary, SumReceived |-> ZeroSummary]]

\* json.Unmarshal(stdout.Bytes(), result)
Unmarshal(doc) ==
  IF doc = Garbage THEN [err |-> JsonErr, result |-> ZeroResult]
  ELSE
    LET e == IF "end" \in DOMAIN doc THEN doc["end"] ELSE EmptyObj
    IN  [err |-> NoErr,
         result |->
           [Error |-> IF "error" \in DOMAIN doc THEN doc["error"] ELSE "",
            End |->
              [SumSent |-> IF "sum_sent" \in DOMAIN e
                           THEN DecodeSummary(e["sum_sent"]) ELSE ZeroSummary,
               SumReceived |-> IF "sum_received" \in DOMAIN e
                               THEN DecodeSummary(e["sum_received"])
                               ELSE ZeroSummary]]]

\* the nil *IPerf3Result
NilResult == [Error |-> "nil", End |-> [SumSent |-> ZeroSummary,
                                        SumReceived |-> ZeroSummary]]

\* cmd.Run(): nil only when the command started and exited with status 0
Run(p) ==
  IF ~p.started THEN LaunchErr
  ELSE IF p.exitCode # 0 THEN ExitError(p.exitCode)
  ELSE NoErr

\* ExecIPerf3 without the check of the embedded error field
ExecIPerf3_NoFieldCheck(p) ==
  LET runErr == Run(p)
      dec == Unmarshal(p.stdout)
  IN  IF runErr # NoErr
      THEN [result |-> NilResult, err |-> runErr, checks |-> <<"run">>]
      ELSE IF dec.err # NoErr
      THEN [result |-> NilResult, err |-> dec.err,
            checks |-> <<"run", "exit", "decode">>]
      ELSE [result |-> dec.result, err |-> NoErr,
            checks |-> <<"run", "exit", "decode">>]

\* ExecIPerf3: checks lists the checks the call evaluated, in order
ExecIPerf3(p) ==
  LET runErr == Run(p)
      dec == Unmarshal(p.stdout)
  IN  IF runErr # NoErr
      THEN [result |-> NilResult, err |-> runErr, checks |-> <<"run">>]
      ELSE IF p.exitCode # 0
      THEN [result |-> NilResult, err |-> ExitCodeErr(p.exitCode),
            checks |-> <<"run", "exit">>]
      ELSE IF dec.err # NoErr
      THEN [result |-> NilResult, err |-> dec.err,
            checks |-> <<"run", "exit", "decode">>]
      ELSE IF dec.result.Error # ""
      THEN [result |-> NilResult, err |-> ToolErr(dec.result.Error),
            checks |-> <<"run", "exit", "decode", "field">>]
      ELSE [result |-> dec.result, err |-> NoErr,
            checks |-> <<"run", "exit", "decode", "field">>]

(* ------------------------------- state --------------------------------- *)
VARIABLES
  mainPc,               \* position of main()
  interval,             \* *interval, the flag value
  server,               \* *server
  execInterval,         \* execInterval
  errorCount,           \* the GaugeVecs: label value -> gauge value
  sentBitPerSec,
  sentRetransmits,
  receivedBitPerSec,
  receivedRetransmits,
  registered,           \* collectors of the default registry
  pc,                   \* position of the sampler goroutine
  proc,                 \* what the subprocess of the current call did
  result,               \* result, err of the loop body
  err,
  checks,               \* checks the last ExecIPerf3 call evaluated
  sleepDur,             \* argument of the time.Sleep in progress
  failures,             \* failed attempts so far
  ops,                  \* store calls made for the current attempt, by kind
  scrapeOut,            \* body of the last /metrics response
  fresh                 \* a response was served and no store call came after it

storeVars == <<errorCount, sentBitPerSec, sentRetransmits, receivedBitPerSec,
               receivedRetransmits>>
mainVars == <<mainPc, interval, server, execInterval, registered>>
samplerVars == <<pc, proc, result, err, checks, sleepDur, failures, ops>>
scrapeVars == <<scrapeOut, fresh>>
vars == <<mainVars, storeVars, samplerVars, scrapeVars>>

GaugeNames == {"sent_bits_per_second", "sent_retransmits",
               "received_bits_per_second", "received_retransmits"}

\* the vector of a metric name
Vec(name) ==
  CASE name = "error_count" -> errorCount
    [] name = "sent_bits_per_second" -> sentBitPerSec
    [] name = "sent_retransmits" -> sentRetransmits
    [] name = "received_bits_per_second" -> receivedBitPerSec
    [] name = "received_retransmits" -> receivedRetransmits

EmptyVec == <<>>

\* vec.WithLabelValues(l): the child of l, created at 0 when absent
WithLabelValues(vec, l) == IF l \in DOMAIN vec THEN vec ELSE (l :> 0) @@ vec

\* Set written as Add: the new value is added to the old one
SetGauge_Accumulate(vec, l, v) == [WithLabelValues(vec, l) EXCEPT ![l] = @ + v]

\* vec.WithLabelValues(l).Set(v)
SetGauge(vec, l, v) == [WithLabelValues(vec, l) EXCEPT ![l] = v]

\* vec.WithLabelValues(l).Add(v)
AddGauge(vec, l, v) == [WithLabelValues(vec, l) EXCEPT ![l] = @ + v]

\* vec.Reset(): every child is deleted
ResetVec(vec) == EmptyVec

\* no store call yet; one more call of kind k
NoOps == [sets |-> 0, incs |-> 0, clears |-> 0]
Count(o, k) == [o EXCEPT ![k] = @ + 1]

\* the listener error is logged and the process lives on
Alive_ListenerErrorLogged == mainPc # "fatal_interval"

Alive == mainPc \notin {"fatal_interval", "fatal_http"}

Init ==
  /\ mainPc = "L65"
  /\ interval \in IntervalFlags
  /\ server \in Servers
  /\ execInterval = 0
  /\ errorCount = EmptyVec
  /\ sentBitPerSec = EmptyVec
  /\ sentRetransmits = EmptyVec
  /\ receivedBitPerSec = EmptyVec
  /\ receivedRetransmits = EmptyVec
  /\ registered = {}
  /\ pc = "notstarted"
  /\ proc = NoProc
  /\ result = NilResult
  /\ err = NoErr
  /\ checks = <<>>
  /\ sleepDur = 0
  /\ failures = 0
  /\ ops = NoOps
  /\ scrapeOut = <<>>
  /\ fresh = FALSE

(* ------------------------------- main() -------------------------------- *)
\* the parse error is logged and startup goes on
ParseInterval_Continue ==
  /\ mainPc = "L65"
  /\ mainPc' = "L95"
  /\ execInterval' = ParseDuration(interval).d
  /\ UNCHANGED <<interval, server, registered, storeVars, samplerVars, scrapeVars>>

\* lines 65-68: time.ParseDuration, log.Fatal on error
ParseInterval ==
  /\ mainPc = "L65"
  /\ LET r == ParseDuration(interval)
     IN  IF r.ok
         THEN mainPc' = "L95" /\ execInterval' = r.d
         ELSE mainPc' = "fatal_interval" /\ execInterval' = 0
  /\ UNCHANGED <<interval, server, registered, storeVars, samplerVars, scrapeVars>>

\* line 95: go func() { ... }()
GoSampler ==
  /\ mainPc = "L95"
  /\ mainPc' = "L115"
  /\ pc' = "L97"
  /\ UNCHANGED <<interval, server, execInterval, registered, storeVars,
                 proc, result, err, checks, sleepDur, failures, ops, scrapeVars>>

\* lines 115-116: prometheus.MustRegister(...), http.Handle
Register ==
  /\ mainPc = "L115"
  /\ registered' = GaugeNames
  /\ mainPc' = "L117"
  /\ UNCHANGED <<interval, server, execInterval, storeVars, samplerVars, scrapeVars>>

\* line 117: http.ListenAndServe starts serving, or returns an error at once
ListenAndServe ==
  /\ mainPc = "L117"
  /\ mainPc' \in {"serving", "fatal_http"}
  /\ UNCHANGED <<interval, server, execInterval, registered, storeVars,
                 samplerVars, scrapeVars>>

\* lines 117-120: the serving call returns an error later
ServeError ==
  /\ mainPc = "serving"
  /\ mainPc' = "fatal_http"
  /\ UNCHANGED <<interval, server, execInterval, registered, storeVars,
                 samplerVars, scrapeVars>>

(* -------------------------- sampler goroutine -------------------------- *)
\* line 97: result, err := ExecIPerf3(*server, *port)
Exec ==
  /\ Alive /\ pc = "L97"
  /\ \E p \in ProcOutcomes :
       LET r == ExecIPerf3(p)
       IN  /\ r.err # NoErr => failures < MaxFailures
           /\ proc' = p
           /\ result' = r.result
           /\ err' = r.err
           /\ checks' = r.checks
           /\ failures' = IF r.err # NoErr THEN failures + 1 ELSE failures
  /\ pc' = "L98"
  /\ ops' = NoOps
  /\ UNCHANGED <<mainVars, storeVars, sleepDur, scrapeVars>>

\* lines 98-99: if err != nil { log.Println(...)
Branch ==
  /\ Alive /\ pc = "L98"
  /\ pc' = IF err # NoErr THEN "L100" ELSE "L108"
  /\ proc' = NoProc
  /\ UNCHANGED <<mainVars, storeVars, result, err, checks, sleepDur, failures, ops,
                 scrapeVars>>

\* the counter is set to 1 instead of being incremented
IncError_SetOne ==
  /\ Alive /\ pc = "L100"
  /\ errorCount' = SetGauge(errorCount, server, 1)
  /\ pc' = "L101"
  /\ ops' = Count(ops, "incs")
  /\ fresh' = FALSE
  /\ UNCHANGED <<mainVars, sentBitPerSec, sentRetransmits, receivedBitPerSec,
                 receivedRetransmits, proc, result, err, checks, sleepDur,
                 failures, scrapeOut>>

\* the increment is moved behind the four resets
IncError_Late ==
  /\ Alive /\ pc = "L100"
  /\ pc' = "L101"
  /\ UNCHANGED <<mainVars, storeVars, proc, result, err, checks, sleepDur,
                 failures, ops, scrapeVars>>

\* line 100
IncError ==
  /\ Alive /\ pc = "L100"
  /\ errorCount' = AddGauge(errorCount, server, 1)
  /\ pc' = "L101"
  /\ ops' = Count(ops, "incs")
  /\ fresh' = FALSE
  /\ UNCHANGED <<mainVars, sentBitPerSec, sentRetransmits, receivedBitPerSec,
                 receivedRetransmits, proc, result, err, checks, sleepDur,
                 failures, scrapeOut>>

\* line 101
ResetSentBits ==
  /\ Alive /\ pc = "L101"
  /\ sentBitPerSec' = ResetVec(sentBitPerSec)
  /\ pc' = "L102"
  /\ ops' = Count(ops, "clears")
  /\ fresh' = FALSE
  /\ UNCHANGED <<mainVars, errorCount, sentRetransmits, receivedBitPerSec,
                 receivedRetransmits, proc, result, err, checks, sleepDur,
                 failures, scrapeOut>>

\* the reset of sent_retransmits is left out
ResetSentRetr_Skip ==
  /\ Alive /\ pc = "L102"
  /\ pc' = "L103"
  /\ UNCHANGED <<mainVars, storeVars, proc, result, err, checks, sleepDur,
                 failures, ops, scrapeVars>>

\* line 102
ResetSentRetr ==
  /\ Alive /\ pc = "L102"
  /\ sentRetransmits' = ResetVec(sentRetransmits)
  /\ pc' = "L103"
  /\ ops' = Count(ops, "clears")
  /\ fresh' = FALSE
  /\ UNCHANGED <<mainVars, errorCount, sentBitPerSec, receivedBitPerSec,
                 receivedRetransmits, proc, result, err, checks, sleepDur,
                 failures, scrapeOut>>

\* line 103
ResetRecvBits ==
  /\ Alive /\ pc = "L103"
  /\ receivedBitPerSec' = ResetVec(receivedBitPerSec)
  /\ pc' = "L104"
  /\ ops' = Count(ops, "clears")
  /\ fresh' = FALSE
  /\ UNCHANGED <<mainVars, errorCount, sentBitPerSec, sentRetransmits,
                 receivedRetransmits, proc, result, err, checks, sleepDur,
                 failures, scrapeOut>>

\* the failure branch falls through to the sets of the success branch
ResetRecvRetr_FallThrough ==
  /\ Alive /\ pc = "L104"
  /\ receivedRetransmits' = ResetVec(receivedRetransmits)
  /\ pc' = "L108"
  /\ ops' = Count(ops, "clears")
  /\ fresh' = FALSE
  /\ UNCHANGED <<mainVars, errorCount, sentBitPerSec, sentRetransmits,
                 receivedBitPerSec, proc, result, err, checks, sleepDur,
                 failures, scrapeOut>>

\* line 104
ResetRecvRetr ==
  /\ Alive /\ pc = "L104"
  /\ receivedRetransmits' = ResetVec(receivedRetransmits)
  /\ pc' = "L105"
  /\ ops' = Count(ops, "clears")
  /\ fresh' = FALSE
  /\ UNCHANGED <<mainVars, errorCount, sentBitPerSec, sentRetransmits,
                 receivedBitPerSec, proc, result, err, checks, sleepDur,
                 failures, scrapeOut>>

\* the failure path sleeps the configured interval
SleepBackoff_Interval ==
  /\ Alive /\ pc = "L105"
  /\ sleepDur' = execInterval
  /\ pc' = "sleeping"
  /\ UNCHANGED <<mainVars, storeVars, proc, result, err, checks, failures, ops,
                 scrapeVars>>

\* line 105: time.Sleep(time.Second * 10) begins
SleepBackoff ==
  /\ Alive /\ pc = "L105"
  /\ sleepDur' = Backoff
  /\ pc' = "sleeping"
  /\ UNCHANGED <<mainVars, storeVars, proc, result, err, checks, failures, ops,
                 scrapeVars>>

\* a success also resets the error counter
SetSentBits_ResetErrors ==
  /\ Alive /\ pc = "L108"
  /\ sentBitPerSec' = SetGauge(sentBitPerSec, server,
                               result.End.SumSent.BitsPerSecond)
  /\ errorCount' = ResetVec(errorCount)
  /\ pc' = "L109"
  /\ ops' = Count(ops, "sets")
  /\ fresh' = FALSE
  /\ UNCHANGED <<mainVars, sentRetransmits, receivedBitPerSec,
                 receivedRetransmits, proc, result, err, checks, sleepDur,
                 failures, scrapeOut>>

\* line 108
SetSentBits ==
  /\ Alive /\ pc = "L108"
  /\ sentBitPerSec' = SetGauge(sentBitPerSec, server,
                               result.End.SumSent.BitsPerSecond)
  /\ pc' = "L109"
  /\ ops' = Count(ops, "sets")
  /\ fresh' = FALSE
  /\ UNCHANGED <<mainVars, errorCount, sentRetransmits, receivedBitPerSec,
                 receivedRetransmits, proc, result, err, checks, sleepDur,
                 failures, scrapeOut>>

\* line 109
SetSentRetr ==
  /\ Alive /\ pc = "L109"
  /\ sentRetransmits' = SetGauge(sentRetransmits, server,
                                 result.End.SumSent.Retransmits)
  /\ pc' = "L110"
  /\ ops' = Count(ops, "sets")
  /\ fresh' = FALSE
  /\ UNCHANGED <<mainVars, errorCount, sentBitPerSec, receivedBitPerSec,
                 receivedRetransmits, proc, result, err, checks, sleepDur,
                 failures, scrapeOut>>

\* line 110
SetRecvBits ==
  /\ Alive /\ pc = "L110"
  /\ receivedBitPerSec' = SetGauge(receivedBitPerSec, server,
                                   result.End.SumReceived.BitsPerSecond)
  /\ pc' = "L111"
  /\ ops' = Count(ops, "sets")
  /\ fresh' = FALSE
  /\ UNCHANGED <<mainVars, errorCount, sentBitPerSec, sentRetransmits,
                 receivedRetransmits, proc, result, err, checks, sleepDur,
                 failures, scrapeOut>>

\* line 111
SetRecvRetr ==
  /\ Alive /\ pc = "L111"
  /\ receivedRetransmits' = SetGauge(receivedRetransmits, server,
                                     result.End.SumReceived.Retransmits)
  /\ pc' = "L112"
  /\ ops' = Count(ops, "sets")
  /\ fresh' = FALSE
  /\ UNCHANGED <<mainVars, errorCount, sentBitPerSec, sentRetransmits,
                 receivedBitPerSec, proc, result, err, checks, sleepDur,
                 failures, scrapeOut>>

\* the next iteration starts without the sleep
SleepInterval_Skip ==
  /\ Alive /\ pc = "L112"
  /\ pc' = "L97"
  /\ UNCHANGED <<mainVars, storeVars, proc, result, err, checks, sleepDur,
                 failures, ops, scrapeVars>>

\* line 112: time.Sleep(execInterval) begins
SleepInterval ==
  /\ Alive /\ pc = "L112"
  /\ sleepDur' = execInterval
  /\ pc' = "sleeping"
  /\ UNCHANGED <<mainVars, storeVars, proc, result, err, checks, failures, ops,
                 scrapeVars>>

\* the loop is left after a failed attempt
Wake_BreakOnError ==
  /\ Alive /\ pc = "sleeping"
  /\ pc' = IF err # NoErr THEN "returned" ELSE "L97"
  /\ sleepDur' = 0
  /\ UNCHANGED <<mainVars, storeVars, proc, result, err, checks, failures, ops,
                 scrapeVars>>

\* lines 105-106, 112-113: the sleep returns and the loop starts over
Wake ==
  /\ Alive /\ pc = "sleeping"
  /\ pc' = "L97"
  /\ sleepDur' = 0
  /\ UNCHANGED <<mainVars, storeVars, proc, result, err, checks, failures, ops,
                 scrapeVars>>

(* ---------------------------- /metrics --------------------------------- *)
\* promhttp.Handler(): a request gathers the registered collectors, read
\* here as one snapshot of the store; a vector without children is omitted
Gather == [c \in {r \in registered : Vec(r) # EmptyVec} |-> Vec(c)]

\* a read that clears what it has read
Scrape_ReadAndReset ==
  /\ mainPc = "serving"
  /\ scrapeOut' = Gather
  /\ fresh' = TRUE
  /\ sentBitPerSec' = EmptyVec /\ sentRetransmits' = EmptyVec
  /\ receivedBitPerSec' = EmptyVec /\ receivedRetransmits' = EmptyVec
  /\ UNCHANGED <<mainVars, errorCount, samplerVars>>

Scrape ==
  /\ mainPc = "serving"
  /\ scrapeOut' = Gather
  /\ fresh' = TRUE
  /\ UNCHANGED <<mainVars, storeVars, samplerVars>>

Sampler ==
  \/ Exec \/ Branch
  \/ IncError \/ ResetSentBits \/ ResetSentRetr \/ ResetRecvBits \/ ResetRecvRetr
  \/ SleepBackoff
  \/ SetSentBits \/ SetSentRetr \/ SetRecvBits \/ SetRecvRetr
  \/ SleepInterval \/ Wake

Next ==
  \/ ParseInterval \/ GoSampler \/ Register \/ ListenAndServe \/ ServeError
  \/ Sampler
  \/ Scrape

Spec == Init /\ [][Next]_vars

\* the sampler runs whenever it can: a measurement call and a sleep return
LiveSpec == Spec /\ WF_vars(Sampler)

(* ----------------------------- properties ------------------------------ *)
Gauges == <<sentBitPerSec, sentRetransmits, receivedBitPerSec, receivedRetransmits>>

AllAbsent == \A i \in 1..4 : Gauges[i] = EmptyVec
AllPresent == \A i \in 1..4 : server \in DOMAIN Gauges[i]

\* the four values a report publishes
ReportValues(r) ==
  <<r.End.SumSent.BitsPerSecond, r.End.SumSent.Retransmits,
    r.End.SumReceived.BitsPerSecond, r.End.SumReceived.Retransmits>>

GaugesHold(r) ==
  AllPresent /\ \A i \in 1..4 : Gauges[i][server] = ReportValues(r)[i]

\* the reports iperf3 can deliver
Reports == {ExecIPerf3(p).result : p \in {q \in ProcOutcomes : ExecIPerf3(q).err = NoErr}}

ErrorCountValue == IF server \in DOMAIN errorCount THEN errorCount[server] ELSE 0

\* the sampler is between the first and the last gauge call of one outcome
MidUpdate == pc \in {"L102", "L103", "L104", "L109", "L110", "L111"}

\* the sampler has handled a failed / a successful attempt and waits
FailureHandled == pc = "L105" \/ (pc = "sleeping" /\ err # NoErr)
SuccessHandled == pc = "L112" \/ (pc = "sleeping" /\ err = NoErr)

\* the four gauges in a response: all there with one report's values, or none
ResponseAllOrNothing(out) ==
  \/ DOMAIN out \cap GaugeNames = {}
  \/ /\ GaugeNames \subseteq DOMAIN out
     /\ \A g \in GaugeNames : server \in DOMAIN out[g]
     /\ \E r \in Reports :
          /\ out["sent_bits_per_second"][server] = ReportValues(r)[1]
          /\ out["sent_retransmits"][server] = ReportValues(r)[2]
          /\ out["received_bits_per_second"][server] = ReportValues(r)[3]
          /\ out["received_retransmits"][server] = ReportValues(r)[4]

\* C1 as stated: whenever /metrics is served, a scrape taken at that instant
\* returns the four gauges all present with the values of one report, or
\* all absent.
C1_ScrapeAllOrNothing == mainPc = "serving" => ResponseAllOrNothing(Gather)

\* C1 amended: unless the sampler is between the first and the last of the
\* four gauge calls of one outcome, the four gauges are all present with
\* the values of one and the same report, or all absent.
C1_AllOrNothingOutsideUpdate ==
  ~MidUpdate => (AllAbsent \/ \E r \in Reports : GaugesHold(r))

C1_Witness ==
  /\ mainPc = "serving" /\ pc = "L112" /\ failures > 0
  /\ GaugesHold(result) /\ ResponseAllOrNothing(Gather) /\ Gather # <<>>

\* C2: once a failed attempt is handled (before and during the backoff
\* wait) the four gauges are absent and the error counter equals the number
\* of failed attempts so far; and while the last attempt is a failed one no
\* gauge gets a value.
C2_FailureClearsAndCounts ==
  /\ [](FailureHandled => AllAbsent /\ ErrorCountValue = failures)
  /\ [][err # NoErr =>
          /\ DOMAIN sentBitPerSec' \subseteq DOMAIN sentBitPerSec
          /\ DOMAIN sentRetransmits' \subseteq DOMAIN sentRetransmits
          /\ DOMAIN receivedBitPerSec' \subseteq DOMAIN receivedBitPerSec
          /\ DOMAIN receivedRetransmits' \subseteq DOMAIN receivedRetransmits]_vars

C2_Witness ==
  /\ pc = "L105" /\ failures = 2 /\ err.kind = "json"
  /\ AllAbsent /\ ErrorCountValue = 2

\* C3: once a successful attempt is handled the four gauges hold exactly
\* the four values of that attempt's report, whatever came before.
C3_SuccessPublishesReport ==
  SuccessHandled => /\ result \in Reports
                    /\ GaugesHold(result)

C3_Witness ==
  /\ pc = "L112" /\ failures > 0
  /\ ReportValues(result) = <<2000000, 1, 1900000, 3>>
  /\ GaugesHold(result)

\* C4: during an outage (a failed attempt is handled, /metrics is served) a
\* scrape returns none of the four gauges and returns the error counter of
\* the target, equal to the number of failed attempts.
C4_ScrapeShowsErrorCount ==
  (mainPc = "serving" /\ FailureHandled) =>
     /\ DOMAIN Gather \cap GaugeNames = {}
     /\ "error_count" \in DOMAIN Gather
     /\ server \in DOMAIN Gather["error_count"]
     /\ Gather["error_count"][server] = failures

\* C5: the error counter never decreases; it changes only at the increment
\* of the failure branch, by exactly 1, once per failed attempt; a success
\* and the gauge resets leave it alone.
C5_ErrorCountMonotonic ==
  /\ [][/\ ErrorCountValue' >= ErrorCountValue
        /\ ErrorCountValue' # ErrorCountValue =>
             /\ pc = "L100" /\ err # NoErr
             /\ ErrorCountValue' = ErrorCountValue + 1]_vars
  /\ [](ErrorCountValue =
          failures - (IF pc \in {"L98", "L100"} /\ err # NoErr THEN 1 ELSE 0))

C5_Witness ==
  /\ pc = "L112" /\ err = NoErr /\ failures = 2 /\ ErrorCountValue = 2

\* the subprocess output cannot be decoded / carries an error message
Undecodable(doc) == doc = Garbage
EmbeddedError(doc) ==
  doc # Garbage /\ "error" \in DOMAIN doc /\ doc["error"] # ""

\* C6: when ExecIPerf3 returns, the failure is that of the first of launch
\* failure, non-zero exit, undecodable output, embedded error that applies,
\* no later check was evaluated, no report comes with a failure, and a
\* report is returned exactly when none of the four applies.
C6_FailureOrder ==
  pc = "L98" =>
    /\ ~proc.started => err.kind = "launch" /\ checks = <<"run">>
    /\ (proc.started /\ proc.exitCode # 0) =>
         /\ err.kind \in {"exit_status", "exit_code"}
         /\ err.code = proc.exitCode
         /\ \A i \in DOMAIN checks : checks[i] \notin {"decode", "field"}
    /\ (proc.started /\ proc.exitCode = 0 /\ Undecodable(proc.stdout)) =>
         /\ err.kind = "json"
         /\ \A i \in DOMAIN checks : checks[i] # "field"
    /\ (proc.started /\ proc.exitCode = 0 /\ EmbeddedError(proc.stdout)) =>
         /\ err.kind = "tool" /\ err.msg = proc.stdout["error"]
    /\ err # NoErr => result = NilResult
    /\ (result # NilResult) <=>
         /\ proc.started /\ proc.exitCode = 0
         /\ ~Undecodable(proc.stdout) /\ ~EmbeddedError(proc.stdout)

C6_Witness ==
  /\ pc = "L98" /\ proc.started /\ proc.exitCode = 0
  /\ EmbeddedError(proc.stdout) /\ "sum_sent" \in DOMAIN proc.stdout["end"]
  /\ err.msg = "unable to connect to server" /\ result = NilResult

\* C7: when the subprocess starts and exits with status n # 0, ExecIPerf3
\* returns the "exit code: n" error of the exit-code check, not the error
\* of the run.
C7_ExitCodeError ==
  (pc = "L98" /\ proc.started /\ proc.exitCode # 0) =>
     err = ExitCodeErr(proc.exitCode)

\* C8: the sleep after a failed attempt lasts the 10 s backoff, the sleep
\* after a successful attempt lasts the configured interval, and the sleep
\* after a failure is shorter than the interval when the interval exceeds
\* 10 s.
C8_Pacing ==
  pc = "sleeping" =>
    /\ err # NoErr => sleepDur = Backoff
    /\ err = NoErr => sleepDur = execInterval
    /\ (err # NoErr /\ execInterval > Backoff) => sleepDur < execInterval

C8_Witness ==
  /\ pc = "sleeping" /\ err # NoErr /\ execInterval > Backoff
  /\ sleepDur = Backoff

\* C9: while the process lives, the started sampler always comes back to
\* the call of ExecIPerf3 and the call returns, whatever failed before; and
\* the process never ends in a step of the sampler.
C9_SamplerNeverStops ==
  /\ [](pc \notin {"notstarted", "L97"} => <>(pc = "L97" \/ ~Alive))
  /\ [](pc = "L97" => <>(pc = "L98" \/ ~Alive))
  /\ [][(Alive /\ ~Alive') => UNCHANGED <<storeVars, samplerVars>>]_vars

C9_Witness ==
  /\ Alive /\ pc = "L97" /\ failures >= 2 /\ err.kind = "launch"

\* C10: when the interval flag does not parse, the process ends at the parse:
\* the sampler is never started, no attempt is made and the store is never
\* written.
C10_BadIntervalAborts ==
  (~ParseDuration(interval).ok /\ mainPc # "L65") =>
     /\ mainPc = "fatal_interval"
     /\ pc = "notstarted" /\ checks = <<>> /\ failures = 0
     /\ AllAbsent /\ errorCount = EmptyVec /\ registered = {}

C10_Witness ==
  /\ mainPc = "fatal_interval" /\ interval = <<"5", "s", "s">>

\* C11: a read leaves every gauge and the error counter unchanged, and as
\* long as no store call of the sampler follows a read, a second read
\* returns what that read returned.
C11_ReadsDoNotWrite ==
  /\ [][fresh' => UNCHANGED storeVars]_vars
  /\ [](fresh => scrapeOut = Gather)

C11_Witness ==
  /\ fresh /\ pc = "sleeping" /\ err = NoErr /\ failures > 0
  /\ DOMAIN scrapeOut = GaugeNames /\ scrapeOut = Gather

\* C12: once the listener has failed (at its start or while serving) the
\* process is over: no step follows, so the sampler makes no further
\* attempt and no further store call, wherever it was.
C12_ListenerFailureStopsAll ==
  [][mainPc = "fatal_http" => UNCHANGED <<mainPc, storeVars, samplerVars>>]_vars

C12_Witness ==
  /\ mainPc = "fatal_http" /\ pc = "sleeping" /\ sleepDur = Backoff
  /\ failures = 1 /\ ErrorCountValue = 1

\* the store calls of a handled failure / of a handled success
FailureOps == [sets |-> 0, incs |-> 1, clears |-> 4]
SuccessOps == [sets |-> 4, incs |-> 0, clears |-> 0]

\* C13: a call of ExecIPerf3 is made from the head of the loop only; the
\* loop comes back to its head only from the sleep of the previous attempt,
\* of the right length and with all store calls of that attempt applied;
\* and every store call is made for the attempt whose outcome is held.
C13_OneAttemptAtATime ==
  [][/\ (pc' = "L98" /\ pc # "L98") => pc = "L97"
     /\ (pc' = "L97" /\ pc # "L97") =>
          \/ pc = "notstarted" /\ checks = <<>>
          \/ /\ pc = "sleeping"
             /\ sleepDur = IF err # NoErr THEN Backoff ELSE execInterval
             /\ IF err # NoErr
                THEN AllAbsent /\ ErrorCountValue = failures /\ ops = FailureOps
                ELSE GaugesHold(result) /\ ops = SuccessOps
     /\ (ops' # ops /\ ops' # NoOps) =>
          /\ pc \notin {"notstarted", "L97", "L98", "sleeping"}
          /\ pc' \notin {"L97", "L98"}
          /\ UNCHANGED <<result, err, checks, failures>>]_vars

C13_Witness ==
  /\ pc = "L97" /\ err = NoErr /\ failures > 0 /\ ops = SuccessOps
  /\ GaugesHold(result) /\ ReportValues(result)[1] = 1000000

\* C14: the error counter is at least the number of failed attempts whose
\* gauge resets have begun, in every state; each reset of the failure branch
\* is made with the increment of that failure already applied.
C14_IncrementBeforeClear ==
  /\ [](ErrorCountValue >=
          failures - (IF err # NoErr /\ ops.clears = 0 THEN 1 ELSE 0))
  /\ [][ops'.clears > ops.clears =>
          ops.incs = 1 /\ ErrorCountValue = failures]_vars

C14_Witness ==
  /\ pc = "L102" /\ ops.clears = 1 /\ failures = 2 /\ ErrorCountValue = 2
  /\ sentBitPerSec = EmptyVec /\ server \in DOMAIN sentRetransmits

\* C15: until the first call of ExecIPerf3 has returned the four gauges and
\* the error counter are absent; the store calls made for one attempt are
\* never a mixture of sets with an increment or resets; a handled success
\* has made four sets and nothing else, a handled failure one increment and
\* four resets and no set.
C15_ExclusiveUpdateGroups ==
  /\ checks = <<>> => (AllAbsent /\ errorCount = EmptyVec /\ ops = NoOps)
  /\ ops.sets = 0 \/ (ops.incs = 0 /\ ops.clears = 0)
  /\ ops.sets > 0 => err = NoErr
  /\ (ops.incs > 0 \/ ops.clears > 0) => err # NoErr
  /\ SuccessHandled => ops = SuccessOps
  /\ FailureHandled => ops = FailureOps

C15_Witness ==
  /\ pc = "L112" /\ ops = SuccessOps /\ failures = 1 /\ ErrorCountValue = 1
  /\ AllPresent

====
